---------------------------- MODULE Spec2Model ----------------------------
(***************************************************************************)
(* SmokeGuard: the Telegram recipient registry and delivery engine         *)
(* (FlareGuardBot in src/src/notification_service.py).                     *)
(*                                                                         *)
(* The model covers the encrypted, locked persistence of the recipient     *)
(* list (sysdata.bin) and of the update cursor (last_update.bin), the      *)
(* discovery of recipients from polled updates (_update_chat_ids) and the  *)
(* per-recipient delivery loop with retries and pruning (send_alert).      *)
(***************************************************************************)
EXTENDS Integers, Sequences, FiniteSets, TLC

(***************************************************************************)
(* Bounds of the model                                                     *)
(***************************************************************************)
\* longest in-memory recipient list drawn as an input
MaxChats == 2
\* longest list handed to _save_chat_ids as an input (duplicates allowed)
MaxList == 3
\* longest batch of updates the update source holds from the start
MaxBatch == 3
\* updates that arrive at the update source while two instances run
MaxArrivals == 2
\* number of discovery invocations one instance makes
MaxRuns == 2

(***************************************************************************)
(* Domains of the inputs                                                   *)
(***************************************************************************)
\* the registry instances: the detector process and the check_users tool
Procs == {"detector", "check_users"}
\* ENCRYPTION_KEY of this deployment, and a foreign key
OwnKey == "k1"
ForeignKey == "k2"
\* recipient (chat) identifiers
ChatIdDomain == {100, 200, 300}
\* sequence numbers (update_id) and senders carried by polled updates;
\* sender 0 stands for an update without message / chat id (falsy)
UpdateIdDomain == {48, 50, 51, 53}
SenderDomain == {0, 100, 777}
CursorDomain == {0, 50}

(***************************************************************************)
(* Generic helpers on sequences                                            *)
(***************************************************************************)
ToSet(s) == {s[i] : i \in 1..Len(s)}

NoDup(s) == \A i, j \in 1..Len(s) : i # j => s[i] # s[j]

\* all sequences over S of length at most n
SeqsUpTo(S, n) == UNION {[1..k -> S] : k \in 0..n}

\* the duplicate-free lists whose elements are exactly the set S:
\* the orders in which Python may enumerate list(set(...))
Orderings(S) == {l \in [1..Cardinality(S) -> S] : ToSet(l) = S}

RECURSIVE SortedSeq(_)
SortedSeq(S) ==
    IF S = {} THEN <<>>
    ELSE LET m == CHOOSE x \in S : \A y \in S : x <= y
         IN <<m>> \o SortedSeq(S \ {m})

(***************************************************************************)
(* Text conversions: str(int), int(str), json.dumps / json.loads           *)
(***************************************************************************)
DigitChars == <<"0", "1", "2", "3", "4", "5", "6", "7", "8", "9">>

IsDigit(c) == \E i \in 1..10 : DigitChars[i] = c

DigitVal(c) == (CHOOSE i \in 1..10 : DigitChars[i] = c) - 1

\* str(n) for n >= 0: the decimal digits of n
RECURSIVE Str(_)
Str(n) ==
    IF n < 10 THEN <<DigitChars[n + 1]>>
    ELSE Append(Str(n \div 10), DigitChars[(n % 10) + 1])

\* the value of a non-empty all-digit text
RECURSIVE DigitsValue(_)
DigitsValue(t) ==
    IF t = <<>> THEN 0
    ELSE DigitsValue(SubSeq(t, 1, Len(t) - 1)) * 10 + DigitVal(t[Len(t)])

IsNumeral(t) == Len(t) > 0 /\ \A i \in 1..Len(t) : IsDigit(t[i])

\* int(text): ValueError unless the text is a numeral
ParseInt(t) ==
    IF IsNumeral(t) THEN [exc |-> "none", val |-> DigitsValue(t)]
    ELSE [exc |-> "ValueError", val |-> 0]

\* json.dumps(list of int): the list of the items' numerals
JsonDumps(ids) == [kind |-> "list", items |-> [i \in 1..Len(ids) |-> Str(ids[i])]]

\* the Python value of one JSON item: a numeral is an int, true/false are
\* bool (a subclass of int: True == 1), anything else is a non-int value
JsonItem(t) ==
    IF IsNumeral(t) THEN [ty |-> "int", v |-> DigitsValue(t)]
    ELSE IF t = <<"true">> THEN [ty |-> "bool", v |-> 1]
    ELSE IF t = <<"false">> THEN [ty |-> "bool", v |-> 0]
    ELSE [ty |-> "str", v |-> 0]

\* json.loads(plaintext): a list document gives the list of its items, a
\* bare numeral gives one int (not iterable), other bytes do not parse
JsonLoads(plain) ==
    IF plain.kind = "list"
    THEN [exc |-> "none", iterable |-> TRUE,
          val |-> [i \in 1..Len(plain.items) |-> JsonItem(plain.items[i])]]
    ELSE IF plain.kind = "text" /\ IsNumeral(plain.chars)
    THEN [exc |-> "none", iterable |-> FALSE, val |-> <<>>]
    ELSE [exc |-> "JSONDecodeError", iterable |-> FALSE, val |-> <<>>]

\* isinstance(i, int)
IsInstanceInt(item) == item.ty \in {"int", "bool"}

(***************************************************************************)
(* Cipher: Fernet tokens                                                   *)
(***************************************************************************)
AbsentFile == [kind |-> "absent"]
GarbageFile == [kind |-> "garbage"]

\* cipher_suite.encrypt(plaintext)
Encrypt(key, plain) == [kind |-> "token", key |-> key, body |-> plain]

\* cipher_suite.decrypt(data): InvalidToken unless data is a token made
\* with the same key
Decrypt(key, data) ==
    IF data.kind = "token" /\ data.key = key
    THEN [exc |-> "none", plain |-> data.body]
    ELSE [exc |-> "InvalidToken", plain |-> [kind |-> "binary"]]

(***************************************************************************)
(* Recipient registry: the two persisted files                             *)
(***************************************************************************)
\* every exception the modelled calls raise derives from Exception
PyExceptions ==
    {"InvalidToken", "JSONDecodeError", "UnicodeDecodeError", "TypeError",
     "ValueError"}

\* a handler that catches ValueError and its subclasses only
CaughtByExceptValueError(exc) == exc \in {"ValueError", "JSONDecodeError", "UnicodeDecodeError"}

\* the clause `except Exception` of the four storage methods
CaughtByExceptException(exc) == exc \in PyExceptions

\* the try block of _load_chat_ids
LoadChatIdsTry(file, key) ==
    IF file.kind = "absent" THEN [exc |-> "none", ids |-> {}]
    ELSE LET d == Decrypt(key, file)
             j == JsonLoads(d.plain)
         IN IF d.exc # "none" THEN [exc |-> d.exc, ids |-> {}]
            ELSE IF j.exc # "none" THEN [exc |-> j.exc, ids |-> {}]
            ELSE IF ~j.iterable THEN [exc |-> "TypeError", ids |-> {}]
            ELSE IF ~(\A i \in 1..Len(j.val) : IsInstanceInt(j.val[i]))
            THEN [exc |-> "ValueError", ids |-> {}]
            ELSE [exc |-> "none", ids |-> {j.val[i].v : i \in 1..Len(j.val)}]

\* _load_chat_ids: the set of the returned list (its order is that of
\* list(set(ids))) and whether an exception leaves the method
LoadChatIds(file, key) ==
    LET r == LoadChatIdsTry(file, key)
    IN IF r.exc = "none" THEN [raised |-> FALSE, ids |-> r.ids]
       ELSE IF CaughtByExceptException(r.exc) THEN [raised |-> FALSE, ids |-> {}]
       ELSE [raised |-> TRUE, ids |-> {}]

\* a save that serialises str(set(...)), which is no JSON document
SaveChatIdsBlobStr(ids, key) ==
    Encrypt(key, [kind |-> "text", chars |-> <<"{">> \o Str(Len(ids)) \o <<"}">>])

\* _save_chat_ids: the token written to sysdata.bin.  list(set(...)) drops
\* the duplicates; the order it leaves is not observable, since every
\* reader passes the list through set() again, so the numerals are written
\* in increasing order.
SaveChatIdsBlob(ids, key) == Encrypt(key, JsonDumps(SortedSeq(ToSet(ids))))

\* the try block of _get_last_update_id
GetLastUpdateIdTry(file, key) ==
    IF file.kind = "absent" THEN [exc |-> "none", val |-> 0]
    ELSE LET d == Decrypt(key, file)
         IN IF d.exc # "none" THEN [exc |-> d.exc, val |-> 0]
            ELSE IF d.plain.kind = "binary"
            THEN [exc |-> "UnicodeDecodeError", val |-> 0]
            ELSE IF d.plain.kind # "text" THEN [exc |-> "ValueError", val |-> 0]
            ELSE ParseInt(d.plain.chars)

\* _get_last_update_id
GetLastUpdateId(file, key) ==
    LET r == GetLastUpdateIdTry(file, key)
    IN IF r.exc = "none" THEN [raised |-> FALSE, val |-> r.val]
       ELSE IF CaughtByExceptException(r.exc) THEN [raised |-> FALSE, val |-> 0]
       ELSE [raised |-> TRUE, val |-> 0]

\* _save_last_update_id: the token written to last_update.bin
SaveLastUpdateIdBlob(update_id, key) ==
    Encrypt(key, [kind |-> "text", chars |-> Str(update_id)])

(***************************************************************************)
(* State                                                                   *)
(***************************************************************************)
VARIABLES
    storage_file,     \* contents of sysdata.bin
    update_file,      \* contents of last_update.bin
    source,           \* the updates the inbound update source holds
    pc,               \* per instance: where it is in its current method
    chat_ids,         \* per instance: self.chat_ids
    offset,           \* _update_chat_ids: local offset
    updates,          \* _update_chat_ids: updates still to iterate
    new_ids,          \* _update_chat_ids: local new_ids
    todo,             \* send_alert: recipients still to iterate
    attempt,          \* send_alert: loop variable attempt
    sent,             \* send_alert: local sent
    overall_success,  \* send_alert: local overall_success
    failed_chats,     \* send_alert: local failed_chats
    result,           \* send_alert: returned value ("none" before return)
    log,              \* send_alert: one entry per send_photo call
    image_ok,         \* send_alert: image_path.exists() of the current call
    chat_ids0,        \* history: self.chat_ids when the current call began
    cursor0,          \* history: cursor read when the discovery began
    runs,             \* history: discovery invocations completed
    polled,           \* history: per poll, the cursor read and the answer
    after_first,      \* history: registry and files after the first discovery
    h_op,             \* history: the last storage operation applied
    h_saved,          \* history: the list handed to the last _save_chat_ids
    h_fresh,          \* history: sysdata.bin still holds what that save wrote
    writes,           \* history: writes of each file in the current discovery
    env,              \* the environment: which secrets are configured
    service,          \* NotificationService: "off", "running" or "failed"
    whatsapp_enabled, \* NotificationService.whatsapp_enabled
    telegram_bot,     \* NotificationService.telegram_bot ("unset": no attribute)
    producer,         \* the detection loop: "idle" or inside send_alert
    queue,            \* the executor's work queue: dispatches not yet taken
    worker,           \* per pool worker: its position and its dispatch
    loop_running,     \* self.loop.is_running()
    dispatch,         \* history: per dispatch, its return and its channels
    lock,             \* per persisted file: the holder of its FileLock
    io,               \* per instance: the file operation it is in, by step
    to_verify,        \* cleanup_invalid_chats: recipients still to probe
    invalid_ids,      \* cleanup_invalid_chats: local invalid_ids
    probes,           \* history: one entry per _verify_chat_id call
    prune_saves,      \* history: saves made by the current cleanup call
    clock,            \* main: time.time() as the detection loop reads it
    last_alert_time,  \* main: local last_alert_time
    next_detection_to_report, \* main: local next_detection_to_report
    alerts,           \* history: the send_alert calls of the detection loop
    frames            \* history: frames the detection loop has read

fileVars == <<storage_file, update_file>>
discVars == <<offset, updates, new_ids>>
sendVars ==
    <<todo, attempt, sent, overall_success, failed_chats, result, log, image_ok>>
discHist == <<cursor0, runs, polled, after_first, writes>>
storeHist == <<h_op, h_saved, h_fresh>>
facadeVars ==
    <<env, service, whatsapp_enabled, telegram_bot, producer, queue, worker,
      loop_running, dispatch>>
lockVars == <<lock, io>>
pruneVars == <<to_verify, invalid_ids, probes, prune_saves>>
loopVars == <<clock, last_alert_time, next_detection_to_report, alerts, frames>>
moreVars == <<pruneVars, loopVars>>
extVars == <<facadeVars, lockVars, moreVars>>

vars ==
    <<storage_file, update_file, source, pc, chat_ids, offset, updates, new_ids,
      todo, attempt, sent, overall_success, failed_chats, result, log, image_ok,
      chat_ids0, cursor0, runs, polled, after_first, h_op, h_saved, h_fresh,
      writes, env, service, whatsapp_enabled, telegram_bot, producer, queue,
      worker, loop_running, dispatch, lock, io, to_verify, invalid_ids, probes,
      prune_saves, clock, last_alert_time, next_detection_to_report, alerts,
      frames>>

\* what is persisted, as this deployment reads it back
PersistedIds == LoadChatIds(storage_file, OwnKey).ids

PersistedCursor == GetLastUpdateId(update_file, OwnKey).val

\* ThreadPoolExecutor(max_workers=2)
MaxWorkers == 2

Workers == 1..MaxWorkers

\* the persisted files: sysdata.bin and last_update.bin
Files == {"sysdata", "last_update"}

\* a pool worker that waits for work
FreeWorker == [pc |-> "free", job |-> 0]

\* an instance that is in no file operation
NoOp == [op |-> "none", file |-> "none", at |-> "none", seen |-> "none"]

\* no file was written in the current discovery
NoWrites == [cursor |-> 0, registry |-> 0]

\* the NotificationService is not built
FacadeUnused ==
    /\ env = [key |-> TRUE, token |-> TRUE, whatsapp |-> TRUE]
    /\ service = "off"
    /\ whatsapp_enabled = FALSE
    /\ telegram_bot = "unset"
    /\ producer = "idle"
    /\ queue = <<>>
    /\ worker = [w \in Workers |-> FreeWorker]
    /\ loop_running = FALSE
    /\ dispatch = <<>>

\* no instance is in a file operation
LocksFree ==
    /\ lock = [f \in Files |-> "free"]
    /\ io = [p \in Procs |-> NoOp]

\* no cleanup_invalid_chats call is running
PruneIdle ==
    /\ to_verify = [p \in Procs |-> <<>>]
    /\ invalid_ids = [p \in Procs |-> <<>>]
    /\ probes = [p \in Procs |-> <<>>]
    /\ prune_saves = [p \in Procs |-> 0]

\* the detection loop is not running
LoopOff ==
    /\ clock = 0
    /\ last_alert_time = 0
    /\ next_detection_to_report = "any"
    /\ alerts = <<>>
    /\ frames = <<>>

\* the values every specification starts its method-local variables from
LocalsInit ==
    /\ offset = [p \in Procs |-> 0]
    /\ updates = [p \in Procs |-> <<>>]
    /\ new_ids = [p \in Procs |-> <<>>]
    /\ todo = [p \in Procs |-> <<>>]
    /\ attempt = [p \in Procs |-> 0]
    /\ sent = [p \in Procs |-> FALSE]
    /\ overall_success = [p \in Procs |-> FALSE]
    /\ failed_chats = [p \in Procs |-> <<>>]
    /\ result = [p \in Procs |-> "none"]
    /\ log = [p \in Procs |-> <<>>]
    /\ image_ok = [p \in Procs |-> TRUE]
    /\ cursor0 = [p \in Procs |-> 0]
    /\ runs = [p \in Procs |-> 0]
    /\ polled = [p \in Procs |-> <<>>]
    /\ after_first = [p \in Procs |-> <<>>]
    /\ writes = [p \in Procs |-> NoWrites]
    /\ h_op = "none"
    /\ h_saved = <<>>
    /\ h_fresh = FALSE

(***************************************************************************)
(* Storage operations as steps of an instance                              *)
(***************************************************************************)
\* FlareGuardBot.__init__: self.chat_ids = self._load_chat_ids().  An
\* exception that leaves _load_chat_ids leaves the constructor too.
New(p) ==
    /\ pc[p] = "off"
    /\ LET r == LoadChatIds(storage_file, OwnKey)
       IN IF r.raised
          THEN /\ pc' = [pc EXCEPT ![p] = "crashed"]
               /\ UNCHANGED chat_ids
          ELSE /\ pc' = [pc EXCEPT ![p] = "idle"]
               /\ \E l \in Orderings(r.ids) : chat_ids' = [chat_ids EXCEPT ![p] = l]
    /\ h_op' = "load"
    /\ UNCHANGED <<fileVars, source, discVars, sendVars, chat_ids0, discHist,
                   h_saved, h_fresh>>
    /\ UNCHANGED extVars

\* _save_chat_ids()
SaveChatIds(p) ==
    /\ pc[p] = "idle"
    /\ storage_file' = SaveChatIdsBlob(chat_ids[p], OwnKey)
    /\ h_op' = "save"
    /\ h_saved' = chat_ids[p]
    /\ h_fresh' = TRUE
    /\ UNCHANGED <<update_file, source, pc, chat_ids, discVars, sendVars,
                   chat_ids0, discHist>>
    /\ UNCHANGED extVars

\* the instance is dropped and built again from the files (a restart)
Restart(p) ==
    /\ pc[p] = "idle"
    /\ pc' = [pc EXCEPT ![p] = "off"]
    /\ h_op' = "restart"
    /\ UNCHANGED <<fileVars, source, chat_ids, discVars, sendVars, chat_ids0,
                   discHist, h_saved, h_fresh>>
    /\ UNCHANGED extVars

\* offset = self._get_last_update_id()
ReadCursor(p) ==
    /\ pc[p] = "idle"
    /\ LET r == GetLastUpdateId(update_file, OwnKey)
       IN IF r.raised
          THEN /\ pc' = [pc EXCEPT ![p] = "crashed"]
               /\ UNCHANGED offset
          ELSE /\ offset' = [offset EXCEPT ![p] = r.val]
               /\ UNCHANGED pc
    /\ h_op' = "read_cursor"
    /\ UNCHANGED <<fileVars, source, chat_ids, updates, new_ids, sendVars,
                   chat_ids0, discHist, h_saved, h_fresh>>
    /\ UNCHANGED extVars

\* _save_last_update_id(update_id)
WriteCursor(p, update_id) ==
    /\ pc[p] = "idle"
    /\ update_file' = SaveLastUpdateIdBlob(update_id, OwnKey)
    /\ h_op' = "save_cursor"
    /\ UNCHANGED <<storage_file, source, pc, chat_ids, discVars, sendVars,
                   chat_ids0, discHist, h_saved, h_fresh>>
    /\ UNCHANGED extVars

\* contents another writer, a fault or an attacker can leave in a file:
\* nothing, bytes that are no token, a token of another key, and tokens of
\* this key whose plaintext is not what the reader expects
ForeignStorage ==
    {AbsentFile, GarbageFile,
     Encrypt(ForeignKey, JsonDumps(<<100>>)),
     Encrypt(OwnKey, [kind |-> "list", items |-> <<Str(100), <<"x">>>>]),
     Encrypt(OwnKey, [kind |-> "list", items |-> <<<<"true">>>>]),
     Encrypt(OwnKey, [kind |-> "text", chars |-> Str(50)]),
     Encrypt(OwnKey, [kind |-> "binary"])}

ForeignCursor ==
    {AbsentFile, GarbageFile,
     Encrypt(ForeignKey, [kind |-> "text", chars |-> Str(50)]),
     Encrypt(OwnKey, [kind |-> "text", chars |-> <<"5", "x">>]),
     Encrypt(OwnKey, [kind |-> "text", chars |-> <<>>]),
     Encrypt(OwnKey, JsonDumps(<<100>>)),
     Encrypt(OwnKey, [kind |-> "binary"])}

\* the environment replaces sysdata.bin
TamperStorage ==
    /\ \E f \in ForeignStorage : storage_file' = f
    /\ h_op' = "tamper"
    /\ h_fresh' = FALSE
    /\ UNCHANGED <<update_file, source, pc, chat_ids, discVars, sendVars,
                   chat_ids0, discHist, h_saved>>
    /\ UNCHANGED extVars

\* the environment replaces last_update.bin
TamperCursor ==
    /\ \E f \in ForeignCursor : update_file' = f
    /\ h_op' = "tamper"
    /\ UNCHANGED <<storage_file, source, pc, chat_ids, discVars, sendVars,
                   chat_ids0, discHist, h_saved, h_fresh>>
    /\ UNCHANGED extVars

\* Registry persistence alone: one instance whose in-memory list is any list
\* of recipient ids, duplicates included.
InitStore ==
    /\ storage_file = AbsentFile
    /\ update_file = AbsentFile
    /\ source = <<>>
    /\ pc = [p \in Procs |-> IF p = "detector" THEN "idle" ELSE "unused"]
    /\ chat_ids \in [Procs -> SeqsUpTo(ChatIdDomain, MaxList)]
    /\ chat_ids["check_users"] = <<>>
    /\ chat_ids0 = [p \in Procs |-> <<>>]
    /\ LocalsInit
    /\ FacadeUnused
    /\ LocksFree
    /\ PruneIdle
    /\ LoopOff

NextStore ==
    \/ New("detector")
    \/ SaveChatIds("detector")
    \/ Restart("detector")
    \/ ReadCursor("detector")
    \/ \E n \in CursorDomain : WriteCursor("detector", n)
    \/ TamperStorage
    \/ TamperCursor

SpecStore == InitStore /\ [][NextStore]_vars

(***************************************************************************)
(* Claims on the persistence of the registry (SpecStore)                   *)
(***************************************************************************)
\* C6: saving a list R of recipient ids (duplicates allowed) and loading it
\* back with the same key, the file untouched in between, yields a list
\* with the same set of elements as R and without duplicates.
C6_SaveLoadRoundTrip ==
    (h_op = "load" /\ h_fresh)
        => /\ pc["detector"] = "idle"
           /\ ToSet(chat_ids["detector"]) = ToSet(h_saved)
           /\ NoDup(chat_ids["detector"])

\* a list with a duplicate and two distinct ids was saved and loaded back
C6_Witness ==
    /\ h_op = "load"
    /\ h_fresh
    /\ h_saved = <<200, 100, 200>>
    /\ ToSet(chat_ids["detector"]) = {100, 200}
    /\ Len(chat_ids["detector"]) = 2

\* a file this deployment can decrypt
Decryptable(file) == file.kind = "token" /\ file.key = OwnKey

\* sysdata.bin holds a list all of whose entries are integers
WellFormedStorage(file) ==
    /\ Decryptable(file)
    /\ file.body.kind = "list"
    /\ \A i \in 1..Len(file.body.items) : IsInstanceInt(JsonItem(file.body.items[i]))

\* last_update.bin holds an integer
WellFormedCursor(file) ==
    /\ Decryptable(file)
    /\ file.body.kind = "text"
    /\ IsNumeral(file.body.chars)

\* C7: a read of a persisted file that is absent, does not decrypt or is
\* structurally invalid never raises; the recipient load then returns the
\* empty list and the cursor load returns 0.
C7_CorruptReadFallsBack ==
    /\ (h_op = "load" /\ ~WellFormedStorage(storage_file))
           => (pc["detector"] = "idle" /\ chat_ids["detector"] = <<>>)
    /\ (h_op = "read_cursor" /\ ~WellFormedCursor(update_file))
           => (pc["detector"] = "idle" /\ offset["detector"] = 0)

\* a non-empty registry was saved, the file was then replaced by a token of a
\* foreign key, and the load came back empty
C7_Witness ==
    /\ h_op = "load"
    /\ h_saved # <<>>
    /\ storage_file.kind = "token"
    /\ storage_file.key # OwnKey
    /\ pc["detector"] = "idle"
    /\ chat_ids["detector"] = <<>>

(***************************************************************************)
(* Delivery engine: FlareGuardBot.send_alert                               *)
(*                                                                         *)
(* The exception classes are those the except clauses name, in the order   *)
(* Python tries them: Unauthorized, TimedOut, NetworkError (any other      *)
(* network error), and Other for every remaining Exception.                *)
(***************************************************************************)
\* for attempt in range(3)
MaxAttempts == 3
\* if attempt == 2
FinalAttempt == 2
\* await asyncio.sleep(2 ** attempt)
BackoffBase == 2
\* await asyncio.sleep(5)
NetworkDelay == 5

SendOutcomes == {"ok", "Unauthorized", "TimedOut", "NetworkError", "Other"}

\* seconds slept in the handler of the attempt's exception
BackoffDelay(outcome, a) ==
    IF outcome = "TimedOut" THEN BackoffBase ^ a
    ELSE IF outcome = "NetworkError" THEN NetworkDelay
    ELSE 0

\* a variant where Unauthorized does not break out of the retry loop
EndsRetriesUnauthorizedRetried(outcome, a) ==
    \/ outcome \in {"ok", "Other"}
    \/ a + 1 >= MaxAttempts

\* a variant where an unclassified error does not break out of the loop
EndsRetriesOtherRetried(outcome, a) ==
    \/ outcome \in {"ok", "Unauthorized"}
    \/ a + 1 >= MaxAttempts

\* whether the inner loop over attempts ends after this attempt: a break
\* (success, Unauthorized, unclassified) or range(3) exhausted
EndsRetries(outcome, a) ==
    \/ outcome \in {"ok", "Unauthorized", "Other"}
    \/ a + 1 >= MaxAttempts

\* a variant where every failed attempt marks the recipient
HandlerMarksEveryError(outcome, a, chat_id) ==
    IF outcome # "ok" THEN <<chat_id>> ELSE <<>>

\* what the except clauses append to failed_chats
HandlerMarks(outcome, a, chat_id) ==
    IF outcome = "Unauthorized" THEN <<chat_id>>
    ELSE IF outcome = "Other" /\ a = FinalAttempt THEN <<chat_id>>
    ELSE <<>>

\* a variant without the statement after the retry loop
NotSentMarkMissing(was_sent, chat_id) == <<>>

\* if not sent: failed_chats.append(chat_id)
NotSentMark(was_sent, chat_id) == IF was_sent THEN <<>> ELSE <<chat_id>>

\* a variant where the flag follows the last send only
NextOverallLastOnly(overall, outcome) == outcome = "ok"

\* overall_success = True on a successful send
NextOverall(overall, outcome) == overall \/ outcome = "ok"

\* a variant where Unauthorized leaves the loop over the recipients
NextTodoAbortOnUnauthorized(remaining, outcome, a) ==
    IF outcome = "Unauthorized" THEN <<>>
    ELSE IF EndsRetries(outcome, a) THEN Tail(remaining) ELSE remaining

\* for chat_id in self.chat_ids: the recipients left once this attempt is over
NextTodo(remaining, outcome, a) ==
    IF EndsRetries(outcome, a) THEN Tail(remaining) ELSE remaining

\* [id for id in self.chat_ids if id not in failed_chats]
Prune(ids, failed) == SelectSeq(ids, LAMBDA id : id \notin ToSet(failed))

\* entry of send_alert up to the loop: a missing image returns False at once
SendAlertBegin(p, exists) ==
    /\ pc[p] = "idle"
    /\ result[p] = "none"
    /\ image_ok' = [image_ok EXCEPT ![p] = exists]
    /\ chat_ids0' = [chat_ids0 EXCEPT ![p] = chat_ids[p]]
    /\ log' = [log EXCEPT ![p] = <<>>]
    /\ IF ~exists
       THEN /\ result' = [result EXCEPT ![p] = "False"]
            /\ UNCHANGED <<pc, todo, attempt, sent, overall_success, failed_chats>>
       ELSE /\ pc' = [pc EXCEPT ![p] = "sending"]
            /\ overall_success' = [overall_success EXCEPT ![p] = FALSE]
            /\ failed_chats' = [failed_chats EXCEPT ![p] = <<>>]
            /\ todo' = [todo EXCEPT ![p] = chat_ids[p]]
            /\ attempt' = [attempt EXCEPT ![p] = 0]
            /\ sent' = [sent EXCEPT ![p] = FALSE]
            /\ UNCHANGED result
    /\ UNCHANGED <<fileVars, source, chat_ids, discVars, discHist, storeHist>>
    /\ UNCHANGED extVars

\* one pass of the inner loop: a send_photo call to the current recipient,
\* its handler, and, when the inner loop ends, the statement after it
SendPhoto(p, outcome) ==
    /\ pc[p] = "sending"
    /\ todo[p] # <<>>
    /\ LET chat_id == Head(todo[p])
           a == attempt[p]
           ends == EndsRetries(outcome, a)
           was_sent == outcome = "ok"
       IN /\ log' = [log EXCEPT ![p] =
                        Append(@, [chat |-> chat_id, attempt |-> a,
                                   outcome |-> outcome,
                                   slept |-> BackoffDelay(outcome, a)])]
          /\ sent' = [sent EXCEPT ![p] = was_sent]
          /\ overall_success' =
                 [overall_success EXCEPT ![p] = NextOverall(@, outcome)]
          /\ failed_chats' = [failed_chats EXCEPT ![p] =
                 @ \o HandlerMarks(outcome, a, chat_id)
                   \o (IF ends THEN NotSentMark(was_sent, chat_id) ELSE <<>>)]
          /\ todo' = [todo EXCEPT ![p] = NextTodo(@, outcome, a)]
          /\ attempt' = [attempt EXCEPT ![p] = IF ends THEN 0 ELSE a + 1]
    /\ UNCHANGED <<fileVars, source, pc, chat_ids, discVars, result, image_ok,
                   chat_ids0, discHist, storeHist>>
    /\ UNCHANGED extVars

\* after the loop: prune the failed recipients, persist, return
SendAlertEnd(p) ==
    /\ pc[p] = "sending"
    /\ todo[p] = <<>>
    /\ IF failed_chats[p] # <<>>
       THEN LET kept == Prune(chat_ids[p], failed_chats[p])
            IN /\ chat_ids' = [chat_ids EXCEPT ![p] = kept]
               /\ storage_file' = SaveChatIdsBlob(kept, OwnKey)
               /\ h_op' = "save"
               /\ h_saved' = kept
               /\ h_fresh' = TRUE
       ELSE UNCHANGED <<chat_ids, storage_file, storeHist>>
    /\ result' = [result EXCEPT ![p] = IF overall_success[p] THEN "True" ELSE "False"]
    /\ pc' = [pc EXCEPT ![p] = "idle"]
    /\ UNCHANGED <<update_file, source, discVars, todo, attempt, sent,
                   overall_success, failed_chats, log, image_ok, chat_ids0,
                   discHist>>
    /\ UNCHANGED extVars

\* the duplicate-free lists of at most n recipients
Registries(S, n) == {l \in SeqsUpTo(S, n) : NoDup(l)}

\* the file an instance whose list is l left behind
FileOf(l) == IF l = <<>> THEN AbsentFile ELSE SaveChatIdsBlob(l, OwnKey)

\* One delivery by one initialised instance whose registry is persisted.
InitDeliver ==
    /\ \E l \in Registries(ChatIdDomain, MaxChats) :
           /\ chat_ids = [p \in Procs |-> IF p = "detector" THEN l ELSE <<>>]
           /\ storage_file = FileOf(l)
    /\ update_file = AbsentFile
    /\ source = <<>>
    /\ pc = [p \in Procs |-> IF p = "detector" THEN "idle" ELSE "unused"]
    /\ chat_ids0 = [p \in Procs |-> <<>>]
    /\ LocalsInit
    /\ FacadeUnused
    /\ LocksFree
    /\ PruneIdle
    /\ LoopOff

NextDeliver ==
    \/ \E exists \in BOOLEAN : SendAlertBegin("detector", exists)
    \/ \E outcome \in SendOutcomes : SendPhoto("detector", outcome)
    \/ SendAlertEnd("detector")

SpecDeliver == InitDeliver /\ [][NextDeliver]_vars

(***************************************************************************)
(* Claims on the delivery engine (SpecDeliver)                             *)
(***************************************************************************)
\* the call of the detector instance has returned
Returned == result["detector"] # "none"

\* the send_photo calls made to one recipient, in order
AttemptsTo(chat_id) == SelectSeq(log["detector"], LAMBDA e : e.chat = chat_id)

OutcomesTo(chat_id) ==
    [i \in 1..Len(AttemptsTo(chat_id)) |-> AttemptsTo(chat_id)[i].outcome]

Attempted(chat_id) == AttemptsTo(chat_id) # <<>>

Succeeded(chat_id) ==
    \E i \in 1..Len(log["detector"]) :
        log["detector"][i].chat = chat_id /\ log["detector"][i].outcome = "ok"

AllAttemptsFailed(chat_id) == Attempted(chat_id) /\ ~Succeeded(chat_id)

RegistryBefore == ToSet(chat_ids0["detector"])

RegistryAfter == ToSet(chat_ids["detector"])

\* C1: from registry {100, 200}, recipient 100 timing out on all 3 attempts
\* and recipient 200 succeeding at once, the call returns true and the
\* registry, in memory and as persisted, is still {100, 200}.
C1_TimedOutRecipientRetained ==
    (/\ Returned
     /\ RegistryBefore = {100, 200}
     /\ OutcomesTo(100) = <<"TimedOut", "TimedOut", "TimedOut">>
     /\ OutcomesTo(200) = <<"ok">>)
        => /\ result["detector"] = "True"
           /\ RegistryAfter = {100, 200}
           /\ PersistedIds = {100, 200}

C3_UnauthorizedPrunedWithoutRetry ==
    \A c \in RegistryBefore :
        (/\ Returned
         /\ Attempted(c)
         /\ OutcomesTo(c)[1] = "Unauthorized")
            => /\ Len(AttemptsTo(c)) = 1
               /\ c \notin RegistryAfter
               /\ c \notin PersistedIds
               /\ RegistryAfter \subseteq RegistryBefore
               /\ PersistedIds = RegistryAfter
               /\ \A d \in RegistryBefore \ {c} : d \in RegistryAfter <=> Succeeded(d)

\* recipient 300 was refused at once, recipient 100 was reached on its
\* second attempt, and the registry is the former one minus 300
C3_Witness ==
    /\ Returned
    /\ chat_ids0["detector"] = <<300, 100>>
    /\ OutcomesTo(300) = <<"Unauthorized">>
    /\ OutcomesTo(100) = <<"TimedOut", "ok">>
    /\ chat_ids["detector"] = <<100>>
    /\ PersistedIds = {100}

\* C4, as claimed: the call returns true exactly if some send succeeded, and
\* it returns only after every recipient of the registry has been attempted.
C4_ReturnsAfterAllAttempted ==
    Returned
        => /\ result["detector"] = "True" <=> (\E c \in RegistryBefore : Succeeded(c))
           /\ \A c \in RegistryBefore : Attempted(c)

\* C4, amended: the call returns true exactly if some send succeeded; when
\* the image file exists it returns only after every recipient has been
\* attempted, and when the file is missing it returns false with no attempt.
C4_ReturnsAfterAllAttemptedIfImage ==
    Returned
        => /\ result["detector"] = "True" <=> (\E c \in RegistryBefore : Succeeded(c))
           /\ image_ok["detector"] => \A c \in RegistryBefore : Attempted(c)
           /\ ~image_ok["detector"]
                  => (result["detector"] = "False" /\ log["detector"] = <<>>)

\* the first recipient failed, the second was reached: true is returned after
\* both were attempted
C4_Witness ==
    /\ Returned
    /\ image_ok["detector"]
    /\ chat_ids0["detector"] = <<100, 200>>
    /\ OutcomesTo(100) = <<"Other">>
    /\ OutcomesTo(200) = <<"ok">>
    /\ result["detector"] = "True"

\* C5, as claimed: every recipient in the registry when the call starts has
\* received a send attempt when the call returns.
C5_EveryRecipientAttempted ==
    Returned => \A c \in RegistryBefore : Attempted(c)

\* the recipients the loop has passed: those before the remaining suffix
Processed ==
    LET before == chat_ids0["detector"]
        n == Len(before) - Len(todo["detector"])
    IN {before[i] : i \in 1..n}

\* C5, amended: in a call whose image file exists, the loop works through
\* the registry as it was at the start, whatever the outcomes so far: the
\* recipients left are a suffix of it, every recipient before that suffix
\* has been attempted, and the call returns with no recipient left.
C5_EveryRecipientAttemptedIfImage ==
    (image_ok["detector"] /\ (pc["detector"] = "sending" \/ Returned))
        => /\ Len(todo["detector"]) <= Len(chat_ids0["detector"])
           /\ todo["detector"] =
                  SubSeq(chat_ids0["detector"],
                         Len(chat_ids0["detector"]) - Len(todo["detector"]) + 1,
                         Len(chat_ids0["detector"]))
           /\ \A c \in Processed : Attempted(c)
           /\ Returned => todo["detector"] = <<>>

\* the second recipient was attempted although the first was refused
C5_Witness ==
    /\ Returned
    /\ image_ok["detector"]
    /\ chat_ids0["detector"] = <<100, 200>>
    /\ OutcomesTo(100) = <<"Unauthorized">>
    /\ Attempted(200)

(***************************************************************************)
(* Recipient discovery: FlareGuardBot._update_chat_ids                     *)
(***************************************************************************)
\* an update: its sequence number and the chat id of its message (0: none)
Updates == [update_id : UpdateIdDomain, chat_id : SenderDomain]

\* the batches an update source can hold: at most n updates in increasing
\* order of sequence number
Batches(n) ==
    {b \in SeqsUpTo(Updates, n) :
        \A i \in 1..Len(b) - 1 : b[i].update_id < b[i + 1].update_id}

\* bot.get_updates(offset=first, timeout=30): the source answers with the
\* updates it holds, from sequence number `first` on when it honours the
\* offset and all of them when it does not
GetUpdates(held, first, honours) ==
    IF honours THEN SelectSeq(held, LAMBDA u : u.update_id >= first) ELSE held

\* a variant that registers the chat of every update, known or not
IsNewChatAlways(u, ids) == u.chat_id # 0

\* if update.message and update.message.chat_id: ... not in self.chat_ids
IsNewChat(u, ids) == u.chat_id # 0 /\ u.chat_id \notin ToSet(ids)

\* a variant that takes the sequence number of every update as the cursor
AdvancesCursorAlways(update_id, current) == TRUE

\* if update.update_id >= offset
AdvancesCursor(update_id, current) == update_id >= current

\* offset = self._get_last_update_id()
UpdateBegin(p) ==
    /\ pc[p] = "idle"
    /\ runs[p] < MaxRuns
    /\ LET r == GetLastUpdateId(update_file, OwnKey)
       IN /\ offset' = [offset EXCEPT ![p] = r.val]
          /\ cursor0' = [cursor0 EXCEPT ![p] = r.val]
    /\ pc' = [pc EXCEPT ![p] = "poll"]
    /\ writes' = [writes EXCEPT ![p] = NoWrites]
    /\ UNCHANGED <<fileVars, source, chat_ids, updates, new_ids, sendVars,
                   chat_ids0, runs, polled, after_first, storeHist>>
    /\ UNCHANGED extVars

\* what get_updates raises when the poll fails: the errors of the library
\* and of the transport, all of which derive from Exception
PollErrors == {"TimedOut", "NetworkError", "InvalidToken", "Conflict"}

\* a method without the handler around its body
CaughtByUpdateHandlerNever(exc) == FALSE

\* the clause `except Exception` of _update_chat_ids
CaughtByUpdateHandler(exc) == exc \in PollErrors \cup PyExceptions

\* updates = await self.bot.get_updates(offset=offset + 1, timeout=30); an
\* exception of the call is caught by the method's handler, which returns
Poll(p, answer) ==
    /\ pc[p] = "poll"
    /\ IF answer = "error"
       THEN /\ pc' = [pc EXCEPT ![p] = IF \A exc \in PollErrors : CaughtByUpdateHandler(exc)
                                       THEN "idle" ELSE "crashed"]
            /\ runs' = [runs EXCEPT ![p] = @ + 1]
            /\ polled' = [polled EXCEPT ![p] = Append(@, [ok |-> FALSE, cursor |-> offset[p], batch |-> <<>>])]
            /\ after_first' =
                   [after_first EXCEPT ![p] =
                       IF runs[p] = 0
                       THEN <<[ids |-> chat_ids[p], storage |-> storage_file,
                               cursor |-> update_file]>>
                       ELSE @]
            /\ UNCHANGED <<updates, new_ids>>
       ELSE LET batch == GetUpdates(source, offset[p] + 1, answer = "from_offset")
            IN /\ updates' = [updates EXCEPT ![p] = batch]
               /\ new_ids' = [new_ids EXCEPT ![p] = <<>>]
               /\ polled' = [polled EXCEPT ![p] = Append(@, [ok |-> TRUE, cursor |-> offset[p], batch |-> batch])]
               /\ pc' = [pc EXCEPT ![p] = "loop"]
               /\ UNCHANGED <<runs, after_first>>
    /\ UNCHANGED <<fileVars, source, chat_ids, offset, sendVars, chat_ids0,
                   cursor0, writes, storeHist>>
    /\ UNCHANGED extVars

\* one pass of `for update in updates`
ProcessUpdate(p) ==
    /\ pc[p] = "loop"
    /\ updates[p] # <<>>
    /\ LET u == Head(updates[p])
       IN /\ IF IsNewChat(u, chat_ids[p])
             THEN /\ new_ids' = [new_ids EXCEPT ![p] = Append(@, u.chat_id)]
                  /\ chat_ids' = [chat_ids EXCEPT ![p] = Append(@, u.chat_id)]
             ELSE UNCHANGED <<new_ids, chat_ids>>
          /\ IF AdvancesCursor(u.update_id, offset[p])
             THEN /\ offset' = [offset EXCEPT ![p] = u.update_id]
                  /\ update_file' = SaveLastUpdateIdBlob(u.update_id, OwnKey)
                  /\ writes' = [writes EXCEPT ![p].cursor = @ + 1]
             ELSE UNCHANGED <<offset, update_file, writes>>
    /\ updates' = [updates EXCEPT ![p] = Tail(@)]
    /\ UNCHANGED <<storage_file, source, pc, sendVars, chat_ids0, cursor0, runs,
                   polled, after_first, storeHist>>
    /\ UNCHANGED extVars

\* after the loop: if new_ids: self._save_chat_ids()
UpdateEnd(p) ==
    /\ pc[p] = "loop"
    /\ updates[p] = <<>>
    /\ IF new_ids[p] # <<>>
       THEN /\ storage_file' = SaveChatIdsBlob(chat_ids[p], OwnKey)
            /\ writes' = [writes EXCEPT ![p].registry = @ + 1]
            /\ h_op' = "save"
            /\ h_saved' = chat_ids[p]
            /\ h_fresh' = TRUE
       ELSE UNCHANGED <<storage_file, writes, storeHist>>
    /\ pc' = [pc EXCEPT ![p] = "idle"]
    /\ runs' = [runs EXCEPT ![p] = @ + 1]
    /\ after_first' =
           [after_first EXCEPT ![p] =
               IF runs[p] = 0
               THEN <<[ids |-> chat_ids[p], storage |-> storage_file',
                       cursor |-> update_file]>>
               ELSE @]
    /\ UNCHANGED <<update_file, source, chat_ids, discVars, sendVars, chat_ids0,
                   cursor0, polled>>
    /\ UNCHANGED extVars

\* the file an instance that consumed updates up to c left behind
CursorFileOf(c) == IF c = 0 THEN AbsentFile ELSE SaveLastUpdateIdBlob(c, OwnKey)

\* Discovery by one initialised instance against a source that holds one
\* batch throughout.
InitDiscovery ==
    /\ \E l \in Registries(SenderDomain \ {0, 777}, 1) :
           /\ chat_ids = [p \in Procs |-> IF p = "detector" THEN l ELSE <<>>]
           /\ storage_file = FileOf(l)
    /\ \E c \in CursorDomain : update_file = CursorFileOf(c)
    /\ source \in Batches(MaxBatch)
    /\ pc = [p \in Procs |-> IF p = "detector" THEN "idle" ELSE "unused"]
    /\ chat_ids0 = [p \in Procs |-> <<>>]
    /\ LocalsInit
    /\ FacadeUnused
    /\ LocksFree
    /\ PruneIdle
    /\ LoopOff

NextDiscovery ==
    \/ UpdateBegin("detector")
    \/ \E answer \in {"all", "from_offset", "error"} : Poll("detector", answer)
    \/ ProcessUpdate("detector")
    \/ UpdateEnd("detector")

SpecDiscovery == InitDiscovery /\ [][NextDiscovery]_vars

(***************************************************************************)
(* Claims on discovery by one instance (SpecDiscovery)                     *)
(***************************************************************************)
\* C8: an update of the batch whose sequence number is at most the cursor
\* persisted when the invocation began is not processed: the pass of the
\* loop over it adds no recipient and leaves the persisted cursor as it is.
C8_StaleUpdateNotProcessed ==
    [][(/\ pc["detector"] = "loop"
        /\ updates["detector"] # <<>>
        /\ Head(updates["detector"]).update_id <= cursor0["detector"])
           => /\ chat_ids'["detector"] = chat_ids["detector"]
              /\ PersistedCursor' = PersistedCursor]_vars

LargestOf(S) == CHOOSE m \in S : \A x \in S : m >= x

CountIn(l, x) == Cardinality({i \in 1..Len(l) : l[i] = x})

LastPoll == polled["detector"][Len(polled["detector"])]

\* the instance is between two invocations and its last poll was answered
RunCompleted ==
    /\ pc["detector"] = "idle"
    /\ runs["detector"] >= 1
    /\ LastPoll.ok

\* C9: discovery is idempotent on a repeated batch: after two invocations
\* that polled the same batch, the registry and both files are as they were
\* after the first.  After an invocation the persisted cursor is the largest
\* of the cursor it started from and the sequence numbers of its batch, and
\* every sender of the batch occurs exactly once in the registry.
C9_DiscoveryIdempotent ==
    /\ (/\ RunCompleted
        /\ runs["detector"] = 2
        /\ polled["detector"][1].ok
        /\ polled["detector"][1].batch = polled["detector"][2].batch)
           => /\ chat_ids["detector"] = after_first["detector"][1].ids
              /\ storage_file = after_first["detector"][1].storage
              /\ update_file = after_first["detector"][1].cursor
    /\ RunCompleted
           => /\ PersistedCursor =
                     LargestOf({LastPoll.cursor}
                                   \cup {LastPoll.batch[i].update_id :
                                            i \in 1..Len(LastPoll.batch)})
              /\ \A i \in 1..Len(LastPoll.batch) :
                     LastPoll.batch[i].chat_id # 0
                         => CountIn(chat_ids["detector"], LastPoll.batch[i].chat_id) = 1

\* cursor 50, batch [48, 51, 53] polled twice, 51 carrying the new sender
\* 777: the cursor is 53 and 777 is registered once
C9_Witness ==
    /\ RunCompleted
    /\ runs["detector"] = 2
    /\ polled["detector"][1].ok
    /\ polled["detector"][1].cursor = 50
    /\ polled["detector"][1].batch =
           <<[update_id |-> 48, chat_id |-> 0],
             [update_id |-> 51, chat_id |-> 777],
             [update_id |-> 53, chat_id |-> 0]>>
    /\ polled["detector"][2].batch = polled["detector"][1].batch
    /\ PersistedCursor = 53
    /\ CountIn(chat_ids["detector"], 777) = 1
    /\ 777 \in PersistedIds

(***************************************************************************)
(* Two instances on the same files: the detector process and check_users   *)
(***************************************************************************)
\* senders of the updates that arrive while the instances run
ArrivingSenders == {0, 100}

\* a new update reaches the update source; sequence numbers grow by one
Arrive(sender) ==
    /\ Len(source) < MaxArrivals
    /\ source' = Append(source, [update_id |-> Len(source) + 1, chat_id |-> sender])
    /\ UNCHANGED <<fileVars, pc, chat_ids, discVars, sendVars, chat_ids0,
                   discHist, storeHist>>
    /\ UNCHANGED extVars

\* Both processes are launched on empty files: each builds its FlareGuardBot
\* and runs discovery, while updates arrive at the source.
Init ==
    /\ storage_file = AbsentFile
    /\ update_file = AbsentFile
    /\ source = <<>>
    /\ pc = [p \in Procs |-> "off"]
    /\ chat_ids = [p \in Procs |-> <<>>]
    /\ chat_ids0 = [p \in Procs |-> <<>>]
    /\ LocalsInit
    /\ FacadeUnused
    /\ LocksFree
    /\ PruneIdle
    /\ LoopOff

Next ==
    \/ \E sender \in ArrivingSenders : Arrive(sender)
    \/ \E p \in Procs :
           \/ New(p)
           \/ UpdateBegin(p)
           \/ \E answer \in {"all", "from_offset", "error"} : Poll(p, answer)
           \/ ProcessUpdate(p)
           \/ UpdateEnd(p)

Spec == Init /\ [][Next]_vars

\* C10: the persisted update cursor never decreases: every value written to
\* last_update.bin is at least the value it replaces, also when several
\* instances share the file and interleave their polls and their writes.
C10_CursorNeverDecreases == [][PersistedCursor' >= PersistedCursor]_vars

(***************************************************************************)
(* The deployment: the detector builds its registry, discovers and         *)
(* delivers; check_users is launched beside it on the same files           *)
(***************************************************************************)
\* senders of the updates that arrive while both processes run
SharedSenders == {100, 200}

NextShared ==
    \/ \E sender \in SharedSenders : Arrive(sender)
    \/ \E p \in Procs :
           \/ New(p)
           \/ UpdateBegin(p)
           \/ \E answer \in {"from_offset", "error"} : Poll(p, answer)
           \/ ProcessUpdate(p)
           \/ UpdateEnd(p)
    \/ \E exists \in BOOLEAN : SendAlertBegin("detector", exists)
    \/ \E outcome \in {"ok", "Unauthorized"} : SendPhoto("detector", outcome)
    \/ SendAlertEnd("detector")

SpecShared == Init /\ [][NextShared]_vars

\* C11: with two instances on the same recipient file, a recipient of the
\* persisted set is removed from it only by the save of an instance that
\* marked that recipient for pruning itself: no interleaving of load,
\* discovery, delivery and save loses a known recipient.
C11_NoKnownRecipientLost ==
    [][\A c \in PersistedIds \ PersistedIds' :
           \E p \in Procs :
               /\ pc[p] = "sending"
               /\ pc'[p] = "idle"
               /\ c \in ToSet(failed_chats[p])]_vars

(***************************************************************************)
(* Alert dispatch: NotificationService                                     *)
(*                                                                         *)
(* The detection loop calls send_alert; the dispatch runs on one of the    *)
(* two pool workers, which share the single event loop of the service.     *)
(* The delivery FlareGuardBot.send_alert performs on the loop is one step  *)
(* that begins (the loop runs) and one that ends (the loop stops).         *)
(***************************************************************************)
\* dispatches the detection loop submits
MaxDispatch == 4

\* everything the registry and the delivery engine own
botVars ==
    <<fileVars, source, pc, chat_ids, discVars, sendVars, chat_ids0, discHist,
      storeHist>>

\* the configurations of the environment
Envs == [key : BOOLEAN, token : BOOLEAN, whatsapp : BOOLEAN]

\* FlareGuardBot._init_crypto: ValueError when ENCRYPTION_KEY is not set
InitCrypto(e) == IF e.key THEN "none" ELSE "ValueError"

\* FlareGuardBot(token, ...): what the constructor raises
FlareGuardBotRaises(e) == InitCrypto(e)

\* _init_services, the Telegram part: without a token the attribute
\* telegram_bot is never assigned; an exception of the constructor is caught
\* and leaves None
InitTelegram(e) ==
    IF ~e.token THEN "unset"
    ELSE IF FlareGuardBotRaises(e) # "none" THEN "None"
    ELSE "bot"

\* what leaves NotificationService.__init__: every exception of the
\* registry's construction is handled inside _init_services
InitServicesRaises(e) == "none"

\* NotificationService(config)
Construct ==
    /\ service = "off"
    /\ service' = IF InitServicesRaises(env) = "none" THEN "running" ELSE "failed"
    /\ whatsapp_enabled' = env.whatsapp
    /\ telegram_bot' = InitTelegram(env)
    /\ UNCHANGED <<env, producer, queue, worker, loop_running, dispatch>>
    /\ UNCHANGED <<botVars, lockVars, moreVars>>

\* the record kept of a dispatch
NewDispatch ==
    [ret |-> "none", state |-> "queued", whatsapp |-> "none",
     telegram |-> "none", exc |-> "none"]

\* send_alert up to executor.submit: the frame is saved and the task is put
\* on the executor's queue, which is unbounded
SendAlertCall ==
    /\ service = "running"
    /\ producer = "idle"
    /\ Len(dispatch) < MaxDispatch
    /\ dispatch' = Append(dispatch, NewDispatch)
    /\ queue' = Append(queue, Len(dispatch) + 1)
    /\ producer' = "called"
    /\ UNCHANGED <<env, service, whatsapp_enabled, telegram_bot, worker,
                   loop_running>>
    /\ UNCHANGED <<botVars, lockVars, moreVars>>

\* a variant of send_alert that waits for the future before it returns
ReturnReadyWhenDone(d) == d.state = "done"

\* whether send_alert can go on to its return statement: the future is
\* given a callback and is not waited for
ReturnReady(d) == TRUE

\* send_alert: return True
SendAlertReturn ==
    /\ producer = "called"
    /\ ReturnReady(dispatch[Len(dispatch)])
    /\ dispatch' = [dispatch EXCEPT ![Len(dispatch)].ret = "True"]
    /\ producer' = "idle"
    /\ UNCHANGED <<env, service, whatsapp_enabled, telegram_bot, queue, worker,
                   loop_running>>
    /\ UNCHANGED <<botVars, lockVars, moreVars>>

\* a free worker takes the oldest task and enters _send_alerts_async
Take(w) ==
    /\ worker[w].pc = "free"
    /\ queue # <<>>
    /\ worker' = [worker EXCEPT
                     ![w] = [pc |-> IF whatsapp_enabled THEN "whatsapp"
                                    ELSE "telegram_if",
                             job |-> Head(queue)]]
    /\ queue' = Tail(queue)
    /\ dispatch' = [dispatch EXCEPT ![Head(queue)].state = "running"]
    /\ UNCHANGED <<env, service, whatsapp_enabled, telegram_bot, producer,
                   loop_running>>
    /\ UNCHANGED <<botVars, lockVars, moreVars>>

\* the ways _send_whatsapp_alert ends: the upload failed (caught in
\* upload_image), the notify request answered 200 or another status, or
\* requests.get raised (connection error, timeout), which nothing catches
WhatsappOutcomes == {"upload_failed", "delivered", "http_error", "raised"}

\* _send_whatsapp_alert
Whatsapp(w, outcome) ==
    /\ worker[w].pc = "whatsapp"
    /\ IF outcome = "raised"
       THEN /\ dispatch' = [dispatch EXCEPT
                               ![worker[w].job] =
                                   [@ EXCEPT !.whatsapp = outcome,
                                             !.exc = "RequestException",
                                             !.state = "done"]]
            /\ worker' = [worker EXCEPT ![w] = FreeWorker]
       ELSE /\ dispatch' = [dispatch EXCEPT ![worker[w].job].whatsapp = outcome]
            /\ worker' = [worker EXCEPT ![w].pc = "telegram_if"]
    /\ UNCHANGED <<env, service, whatsapp_enabled, telegram_bot, producer, queue,
                   loop_running>>
    /\ UNCHANGED <<botVars, lockVars, moreVars>>

\* `if self.telegram_bot:` and, inside _send_telegram_alert, the test
\* `if not self.loop.is_running()`: with the loop running the method falls
\* through and returns None
TelegramIf(w) ==
    /\ worker[w].pc = "telegram_if"
    /\ IF telegram_bot = "unset"
       THEN /\ dispatch' = [dispatch EXCEPT
                               ![worker[w].job] =
                                   [@ EXCEPT !.exc = "AttributeError",
                                             !.state = "done"]]
            /\ worker' = [worker EXCEPT ![w] = FreeWorker]
       ELSE IF telegram_bot = "None"
       THEN /\ dispatch' = [dispatch EXCEPT ![worker[w].job].state = "done"]
            /\ worker' = [worker EXCEPT ![w] = FreeWorker]
       ELSE IF loop_running
       THEN /\ dispatch' = [dispatch EXCEPT
                               ![worker[w].job] =
                                   [@ EXCEPT !.telegram = "skipped",
                                             !.state = "done"]]
            /\ worker' = [worker EXCEPT ![w] = FreeWorker]
       ELSE /\ dispatch' = [dispatch EXCEPT ![worker[w].job].telegram = "entered"]
            /\ worker' = [worker EXCEPT ![w].pc = "run"]
    /\ UNCHANGED <<env, service, whatsapp_enabled, telegram_bot, producer, queue,
                   loop_running>>
    /\ UNCHANGED <<botVars, lockVars, moreVars>>

\* self.loop.run_until_complete(self.telegram_bot.send_alert(...)): on a
\* loop that runs already it raises RuntimeError, which the method catches
\* (it returns False); otherwise the loop runs the delivery
RunUntilComplete(w) ==
    /\ worker[w].pc = "run"
    /\ IF loop_running
       THEN /\ dispatch' = [dispatch EXCEPT
                               ![worker[w].job] =
                                   [@ EXCEPT !.telegram = "error",
                                             !.state = "done"]]
            /\ worker' = [worker EXCEPT ![w] = FreeWorker]
            /\ UNCHANGED loop_running
       ELSE /\ dispatch' = [dispatch EXCEPT ![worker[w].job].telegram = "invoked"]
            /\ worker' = [worker EXCEPT ![w].pc = "deliver"]
            /\ loop_running' = TRUE
    /\ UNCHANGED <<env, service, whatsapp_enabled, telegram_bot, producer, queue>>
    /\ UNCHANGED <<botVars, lockVars, moreVars>>

\* the delivery is over: run_until_complete returns and the loop stops
DeliverDone(w) ==
    /\ worker[w].pc = "deliver"
    /\ dispatch' = [dispatch EXCEPT ![worker[w].job].state = "done"]
    /\ worker' = [worker EXCEPT ![w] = FreeWorker]
    /\ loop_running' = FALSE
    /\ UNCHANGED <<env, service, whatsapp_enabled, telegram_bot, producer, queue>>
    /\ UNCHANGED <<botVars, lockVars, moreVars>>

\* The detector process under any configuration of its environment.
InitFacade ==
    /\ env \in Envs
    /\ service = "off"
    /\ whatsapp_enabled = FALSE
    /\ telegram_bot = "unset"
    /\ producer = "idle"
    /\ queue = <<>>
    /\ worker = [w \in Workers |-> FreeWorker]
    /\ loop_running = FALSE
    /\ dispatch = <<>>
    /\ storage_file = AbsentFile
    /\ update_file = AbsentFile
    /\ source = <<>>
    /\ pc = [p \in Procs |-> "unused"]
    /\ chat_ids = [p \in Procs |-> <<>>]
    /\ chat_ids0 = [p \in Procs |-> <<>>]
    /\ LocalsInit
    /\ LocksFree
    /\ PruneIdle
    /\ LoopOff

NextFacade ==
    \/ Construct
    \/ SendAlertCall
    \/ SendAlertReturn
    \/ \E w \in Workers :
           \/ Take(w)
           \/ \E outcome \in WhatsappOutcomes : Whatsapp(w, outcome)
           \/ TelegramIf(w)
           \/ RunUntilComplete(w)
           \/ DeliverDone(w)

SpecFacade == InitFacade /\ [][NextFacade]_vars

(***************************************************************************)
(* Claims on the alert dispatch (SpecFacade)                               *)
(***************************************************************************)
Dispatches == 1..Len(dispatch)

Done(d) == dispatch[d].state = "done"

\* C12: send_alert returns True without waiting for any channel attempt:
\* once the task is handed to the executor the return is enabled whatever
\* the workers and the queue are doing, and the value returned is True for
\* every dispatch, whether its channels later succeed, fail or raise.
C12_SubmitReturnsAtOnce ==
    /\ producer = "called" => ENABLED SendAlertReturn
    /\ \A d \in Dispatches :
           IF d = Len(dispatch) /\ producer = "called"
           THEN dispatch[d].ret = "none"
           ELSE dispatch[d].ret = "True"

\* both workers are busy with the first two dispatches, the third is still
\* in the queue, and the fourth has returned True behind it
C12_Witness ==
    /\ Len(dispatch) = 4
    /\ \A w \in Workers : worker[w].pc # "free"
    /\ queue = <<3, 4>>
    /\ producer = "idle"
    /\ dispatch[4].ret = "True"
    /\ dispatch[4].state = "queued"

\* C13: in a dispatch with both channels enabled, the delivery channel is
\* attempted whatever the outcome of the notify channel (upload failure,
\* non-200 answer, exception or timeout of the request): a dispatch that
\* has ended after its notify channel ran has entered _send_telegram_alert.
C13_SiblingChannelAttempted ==
    \A d \in Dispatches :
        (/\ Done(d)
         /\ whatsapp_enabled
         /\ telegram_bot = "bot"
         /\ dispatch[d].whatsapp # "none")
            => dispatch[d].telegram # "none"

\* C14: the delivery channel of no dispatch is skipped, silently or with an
\* error, because another dispatch is in flight on the other worker: every
\* dispatch that has ended after entering _send_telegram_alert had the
\* delivery invoked on the loop.
C14_DeliverInvoked ==
    \A d \in Dispatches :
        (/\ Done(d)
         /\ telegram_bot = "bot"
         /\ dispatch[d].telegram # "none")
            => dispatch[d].telegram = "invoked"

\* C15: with a token but no encryption key, the construction of the
\* registry raises and the construction of the service fails: the service
\* is never running with the delivery channel disabled, accepting
\* dispatches.
C15_MissingKeyIsFatal ==
    (env.token /\ ~env.key /\ service # "off")
        => /\ FlareGuardBotRaises(env) = "ValueError"
           /\ service = "failed"
           /\ dispatch = <<>>

\* the channels a dispatch ran
RanWhatsapp(d) == dispatch[d].whatsapp # "none"

RanTelegram(d) == dispatch[d].telegram # "none"

\* C16: when the credentials of a channel are absent, the service is built
\* with that channel disabled, and every dispatch whose own requests do not
\* raise runs exactly the channels that have credentials and ends without
\* an error.
C16_MissingCredentialsDisableChannel ==
    (env.key /\ (~env.token \/ ~env.whatsapp) /\ service # "off")
        => /\ service = "running"
           /\ whatsapp_enabled = env.whatsapp
           /\ \A d \in Dispatches :
                  (Done(d) /\ dispatch[d].whatsapp # "raised")
                      => /\ RanWhatsapp(d) <=> env.whatsapp
                         /\ RanTelegram(d) <=> env.token
                         /\ dispatch[d].exc = "none"

(***************************************************************************)
(* The locked file store: the four storage methods step by step            *)
(*                                                                         *)
(* Each method takes FileLock(<file> + ".lock") around its access.  A read *)
(* is: test exists(), acquire, read and decode, release.  A write is:      *)
(* acquire, open(file, "wb") (which truncates), write, release.  FileLock  *)
(* is exclusive between all its holders, threads and processes alike,      *)
(* since every `with FileLock(...)` opens the lock file anew.              *)
(***************************************************************************)
ReadOps == {"load", "read_cursor"}

WriteOps == {"save", "save_cursor"}

\* the file a method works on
FileOfOp(op) == IF op \in {"load", "save"} THEN "sysdata" ELSE "last_update"

Content(f) == IF f = "sysdata" THEN storage_file ELSE update_file

\* a file between open(..., "wb") and f.write(...)
TruncatedFile == [kind |-> "truncated"]

\* entry of a storage method.  A reader tests exists() before it takes the
\* lock and returns its default when the file is absent; n is the update_id
\* handed to _save_last_update_id.
BeginOp(p, op, n) ==
    /\ io[p] = NoOp
    /\ IF op \in ReadOps /\ Content(FileOfOp(op)).kind = "absent"
       THEN /\ chat_ids' = IF op = "load" THEN [chat_ids EXCEPT ![p] = <<>>]
                           ELSE chat_ids
            /\ offset' = IF op = "read_cursor" THEN [offset EXCEPT ![p] = 0]
                         ELSE offset
            /\ UNCHANGED io
       ELSE /\ io' = [io EXCEPT ![p] = [op |-> op, file |-> FileOfOp(op),
                                        at |-> "wait", seen |-> "none"]]
            /\ offset' = IF op = "save_cursor" THEN [offset EXCEPT ![p] = n]
                         ELSE offset
            /\ UNCHANGED chat_ids
    /\ UNCHANGED <<fileVars, source, pc, updates, new_ids, sendVars, chat_ids0,
                   discHist, storeHist, facadeVars, moreVars, lock>>

\* a lock that excludes nobody
LockIsFreeAlways(f) == TRUE

\* FileLock.acquire succeeds only while no one holds the lock
LockIsFree(f) == lock[f] = "free"

\* with FileLock(...): entry
Acquire(p) ==
    /\ io[p].at = "wait"
    /\ LockIsFree(io[p].file)
    /\ lock' = [lock EXCEPT ![io[p].file] = p]
    /\ io' = [io EXCEPT ![p].at = "locked"]
    /\ UNCHANGED <<botVars, facadeVars, moreVars>>

\* the body of a reader: open, read, decrypt, decode; the value returned is
\* assigned by the caller
ReadFile(p) ==
    /\ io[p].at = "locked"
    /\ io[p].op \in ReadOps
    /\ io' = [io EXCEPT ![p].at = "release",
                        ![p].seen = Content(io[p].file).kind]
    /\ IF io[p].op = "load"
       THEN /\ \E l \in Orderings(LoadChatIds(storage_file, OwnKey).ids) :
                   chat_ids' = [chat_ids EXCEPT ![p] = l]
            /\ UNCHANGED offset
       ELSE /\ offset' = [offset EXCEPT
                             ![p] = GetLastUpdateId(update_file, OwnKey).val]
            /\ UNCHANGED chat_ids
    /\ UNCHANGED <<fileVars, source, pc, updates, new_ids, sendVars, chat_ids0,
                   discHist, storeHist, facadeVars, moreVars, lock>>

\* the body of a writer, first half: open(file, "wb") empties the file
OpenWrite(p) ==
    /\ io[p].at = "locked"
    /\ io[p].op \in WriteOps
    /\ io' = [io EXCEPT ![p].at = "opened"]
    /\ IF io[p].file = "sysdata"
       THEN storage_file' = TruncatedFile /\ UNCHANGED update_file
       ELSE update_file' = TruncatedFile /\ UNCHANGED storage_file
    /\ UNCHANGED <<source, pc, chat_ids, discVars, sendVars, chat_ids0, discHist,
                   storeHist, facadeVars, moreVars, lock>>

\* the body of a writer, second half: f.write(encrypted) and close
WriteFile(p) ==
    /\ io[p].at = "opened"
    /\ io' = [io EXCEPT ![p].at = "release"]
    /\ IF io[p].file = "sysdata"
       THEN /\ storage_file' = SaveChatIdsBlob(chat_ids[p], OwnKey)
            /\ UNCHANGED update_file
       ELSE /\ update_file' = SaveLastUpdateIdBlob(offset[p], OwnKey)
            /\ UNCHANGED storage_file
    /\ UNCHANGED <<source, pc, chat_ids, discVars, sendVars, chat_ids0, discHist,
                   storeHist, facadeVars, moreVars, lock>>

\* with FileLock(...): exit
Release(p) ==
    /\ io[p].at = "release"
    /\ lock' = [lock EXCEPT ![io[p].file] = "free"]
    /\ io' = [io EXCEPT ![p] = NoOp]
    /\ UNCHANGED <<botVars, facadeVars, moreVars>>

\* Two instances with a registry each, on files some instance left behind.
InitLock ==
    /\ chat_ids \in [Procs -> Registries(ChatIdDomain, 1)]
    /\ \E l \in Registries(ChatIdDomain, 1) : storage_file = FileOf(l)
    /\ \E c \in CursorDomain : update_file = CursorFileOf(c)
    /\ source = <<>>
    /\ pc = [p \in Procs |-> "unused"]
    /\ chat_ids0 = [p \in Procs |-> <<>>]
    /\ LocalsInit
    /\ FacadeUnused
    /\ LocksFree
    /\ PruneIdle
    /\ LoopOff

NextLock ==
    \E p \in Procs :
        \/ \E op \in ReadOps \cup WriteOps :
               \E n \in (IF op = "save_cursor" THEN CursorDomain ELSE {0}) :
                   BeginOp(p, op, n)
        \/ Acquire(p)
        \/ ReadFile(p)
        \/ OpenWrite(p)
        \/ WriteFile(p)
        \/ Release(p)

SpecLock == InitLock /\ [][NextLock]_vars

\* the instance is inside the critical section of the file
InSection(p, f) == io[p].file = f /\ io[p].at \in {"locked", "opened", "release"}

\* C17: for each persisted file at most one operation is inside its read or
\* write critical section at any time, so two writers never overlap, and no
\* reader reads a file that a writer has truncated and not yet written.
C17_FileAccessExclusive ==
    /\ \A f \in Files : Cardinality({p \in Procs : InSection(p, f)}) <= 1
    /\ \A p \in Procs : io[p].seen # "truncated"
    /\ \A p \in Procs :
           (io[p].op \in ReadOps /\ io[p].at = "locked")
               => Content(io[p].file).kind # "truncated"

\* the detector has truncated sysdata.bin and not yet written it, while
\* check_users waits at the lock to load the same file
C17_Witness ==
    /\ io["detector"].op = "save"
    /\ io["detector"].at = "opened"
    /\ storage_file = TruncatedFile
    /\ io["check_users"].op = "load"
    /\ io["check_users"].at = "wait"

(***************************************************************************)
(* Further claims on discovery by one instance (SpecDiscovery)             *)
(***************************************************************************)
\* C18: in one discovery invocation the cursor file is written at most
\* once, and only when no update of the batch is left to process, and the
\* recipient file is written exactly once if a recipient was added and not
\* at all otherwise.
C18_FilesWrittenOncePerBatch ==
    /\ (pc["detector"] = "loop" /\ updates["detector"] # <<>>)
           => writes["detector"].cursor = 0
    /\ RunCompleted
           => /\ writes["detector"].cursor <= 1
              /\ writes["detector"].registry =
                     (IF new_ids["detector"] # <<>> THEN 1 ELSE 0)

\* the step is a poll of the detector that failed
PollFailed ==
    /\ Len(polled'["detector"]) = Len(polled["detector"]) + 1
    /\ ~polled'["detector"][Len(polled'["detector"])].ok

\* C19: if the poll of the update source fails, discovery returns without
\* raising and leaves the in-memory registry, the persisted recipient set
\* and the persisted cursor as they were, so the next invocation requests
\* the same offset again.
C19_FailedPollChangesNothing ==
    /\ [][PollFailed
              => /\ pc'["detector"] = "idle"
                 /\ chat_ids' = chat_ids
                 /\ storage_file' = storage_file
                 /\ update_file' = update_file
                 /\ PersistedCursor' = cursor0["detector"]]_vars
    /\ [](\A i \in 1..Len(polled["detector"]) - 1 :
              ~polled["detector"][i].ok
                  => polled["detector"][i + 1].cursor = polled["detector"][i].cursor)

\* the first poll failed at cursor 50 with a known recipient, and the
\* second invocation polled from the same cursor and got a batch
C19_Witness ==
    /\ Len(polled["detector"]) = 2
    /\ ~polled["detector"][1].ok
    /\ polled["detector"][1].cursor = 50
    /\ polled["detector"][2].ok
    /\ polled["detector"][2].cursor = 50
    /\ polled["detector"][2].batch # <<>>
    /\ 100 \in PersistedIds

(***************************************************************************)
(* Further claims on the delivery engine (SpecDeliver)                     *)
(***************************************************************************)
\* C20: a recipient whose attempt fails with an unclassified error gets no
\* further attempt in that call, and it is pruned only if that error came
\* on the final (third) attempt: a recipient whose first or second attempt
\* failed with an unclassified error is still in the registry, in memory
\* and as persisted, after the call.
C20_UnclassifiedPrunedOnFinalAttemptOnly ==
    \A c \in RegistryBefore :
        (/\ Returned
         /\ Attempted(c)
         /\ OutcomesTo(c)[Len(OutcomesTo(c))] = "Other")
            => /\ \A i \in 1..Len(OutcomesTo(c)) - 1 : OutcomesTo(c)[i] # "Other"
               /\ Len(OutcomesTo(c)) < MaxAttempts
                      => (c \in RegistryAfter /\ c \in PersistedIds)
               /\ Len(OutcomesTo(c)) = MaxAttempts
                      => (c \notin RegistryAfter /\ c \notin PersistedIds)

\* One delivery in which every send_photo call returns or raises, so that
\* the call always takes its next step.
SpecDeliverFair == SpecDeliver /\ WF_vars(NextDeliver)

\* the errors after which the retry loop goes on to the next attempt
Retried == {"TimedOut", "NetworkError"}

\* C21: deliver() terminates, given that every send call returns or fails.
\* Each recipient receives at most 3 attempts, numbered in order, attempt
\* n+1 to a recipient is made only after attempt n to it ended in a timeout
\* or a transient network error, and the attempts of one call number at
\* most 3 times the size of the registry.
C21_DeliverTerminates ==
    /\ <>Returned
    /\ [](/\ Len(log["detector"]) <= MaxAttempts * Len(chat_ids0["detector"])
          /\ \A c \in ChatIdDomain :
                 /\ Len(AttemptsTo(c)) <= MaxAttempts
                 /\ \A i \in 1..Len(AttemptsTo(c)) :
                        /\ AttemptsTo(c)[i].attempt = i - 1
                        /\ i < Len(AttemptsTo(c)) => OutcomesTo(c)[i] \in Retried)

\* the call has returned after three attempts to each of two recipients:
\* six attempts, the most a registry of two allows
C21_Witness ==
    /\ Returned
    /\ Len(chat_ids0["detector"]) = 2
    /\ Len(log["detector"]) = 6
    /\ \A c \in RegistryBefore : Len(AttemptsTo(c)) = MaxAttempts

\* the delay the retry policy prescribes after attempt number n (from 1)
\* ended with the outcome: 2^(n-1) after a timeout, the fixed delay after a
\* transient network error, both only when another attempt follows
DelayBetweenAttempts(outcome, n) ==
    IF n >= MaxAttempts THEN 0
    ELSE IF outcome = "TimedOut" THEN 2 ^ (n - 1)
    ELSE IF outcome = "NetworkError" THEN NetworkDelay
    ELSE 0

\* C22: within one recipient's retry sequence a backoff delay is waited only
\* between two attempts: after a timeout on attempt n (n = 1, 2) the wait is
\* 2^(n-1) and attempt n+1 follows, after a transient network error the
\* wait is the fixed delay and attempt n+1 follows, and after the third
\* (final) attempt no delay is waited.
C22_BackoffOnlyBetweenAttempts ==
    \A i \in 1..Len(log["detector"]) :
        LET e == log["detector"][i]
        IN /\ e.slept = DelayBetweenAttempts(e.outcome, e.attempt + 1)
           /\ (e.slept > 0 /\ i < Len(log["detector"]))
                  => /\ log["detector"][i + 1].chat = e.chat
                     /\ log["detector"][i + 1].attempt = e.attempt + 1

(***************************************************************************)
(* Pruning by probe: FlareGuardBot.cleanup_invalid_chats                   *)
(***************************************************************************)
\* the ways send_chat_action ends: success or one of the exception classes
ProbeOutcomes == {"ok", "Unauthorized", "TimedOut", "NetworkError", "Other"}

\* a probe that counts every failure as a revoked recipient
VerifyChatIdFailClosed(outcome) == outcome = "ok"

\* _verify_chat_id: False on Unauthorized, True on success and on any other
\* exception
VerifyChatId(outcome) == outcome # "Unauthorized"

\* entry of cleanup_invalid_chats: invalid_ids = []
CleanupInvalidBegin(p) ==
    /\ pc[p] = "idle"
    /\ pc' = [pc EXCEPT ![p] = "verifying"]
    /\ to_verify' = [to_verify EXCEPT ![p] = chat_ids[p]]
    /\ invalid_ids' = [invalid_ids EXCEPT ![p] = <<>>]
    /\ probes' = [probes EXCEPT ![p] = <<>>]
    /\ prune_saves' = [prune_saves EXCEPT ![p] = 0]
    /\ chat_ids0' = [chat_ids0 EXCEPT ![p] = chat_ids[p]]
    /\ UNCHANGED <<fileVars, source, chat_ids, discVars, sendVars, discHist,
                   storeHist, facadeVars, lockVars, loopVars>>

\* one pass of `for chat_id in self.chat_ids`: the probe and its verdict
VerifyStep(p, outcome) ==
    /\ pc[p] = "verifying"
    /\ to_verify[p] # <<>>
    /\ LET chat_id == Head(to_verify[p])
       IN /\ probes' = [probes EXCEPT
                           ![p] = Append(@, [chat |-> chat_id, outcome |-> outcome])]
          /\ invalid_ids' = [invalid_ids EXCEPT
                                ![p] = IF VerifyChatId(outcome) THEN @
                                       ELSE Append(@, chat_id)]
    /\ to_verify' = [to_verify EXCEPT ![p] = Tail(@)]
    /\ UNCHANGED <<botVars, prune_saves, facadeVars, lockVars, loopVars>>

\* after the loop: if invalid_ids: filter self.chat_ids and save
CleanupInvalidEnd(p) ==
    /\ pc[p] = "verifying"
    /\ to_verify[p] = <<>>
    /\ IF invalid_ids[p] # <<>>
       THEN LET kept == Prune(chat_ids[p], invalid_ids[p])
            IN /\ chat_ids' = [chat_ids EXCEPT ![p] = kept]
               /\ storage_file' = SaveChatIdsBlob(kept, OwnKey)
               /\ prune_saves' = [prune_saves EXCEPT ![p] = @ + 1]
               /\ h_op' = "save"
               /\ h_saved' = kept
               /\ h_fresh' = TRUE
       ELSE UNCHANGED <<chat_ids, storage_file, prune_saves, storeHist>>
    /\ pc' = [pc EXCEPT ![p] = "idle"]
    /\ UNCHANGED <<update_file, source, discVars, sendVars, chat_ids0, discHist,
                   to_verify, invalid_ids, probes, facadeVars, lockVars, loopVars>>

\* Pruning by one initialised instance whose registry is persisted.
InitPrune ==
    /\ \E l \in Registries(ChatIdDomain, MaxChats) :
           /\ chat_ids = [p \in Procs |-> IF p = "detector" THEN l ELSE <<>>]
           /\ chat_ids0 = [p \in Procs |-> IF p = "detector" THEN l ELSE <<>>]
           /\ storage_file = FileOf(l)
    /\ update_file = AbsentFile
    /\ source = <<>>
    /\ pc = [p \in Procs |-> IF p = "detector" THEN "idle" ELSE "unused"]
    /\ LocalsInit
    /\ FacadeUnused
    /\ LocksFree
    /\ PruneIdle
    /\ LoopOff

NextPrune ==
    \/ CleanupInvalidBegin("detector")
    \/ \E outcome \in ProbeOutcomes : VerifyStep("detector", outcome)
    \/ CleanupInvalidEnd("detector")

SpecPrune == InitPrune /\ [][NextPrune]_vars

\* the recipients whose probe of the current call answered Unauthorized
Revoked ==
    {probes["detector"][i].chat :
        i \in {j \in 1..Len(probes["detector"]) :
                  probes["detector"][j].outcome = "Unauthorized"}}

\* C23: cleanup_invalid_chats removes from the registry exactly the
\* recipients whose probe answered Unauthorized; a recipient whose probe
\* succeeded or failed with any other error stays, in the order it had; the
\* recipient file is written exactly once if a recipient was removed and
\* not at all otherwise, and always after the last probe.
C23_PruneInvalidRemovesRevokedOnly ==
    /\ pc["detector"] = "verifying"
           => (chat_ids["detector"] = chat_ids0["detector"]
               /\ prune_saves["detector"] = 0)
    /\ pc["detector"] = "idle"
           => /\ Len(probes["detector"]) \in {0, Len(chat_ids0["detector"])}
              /\ chat_ids["detector"] =
                     SelectSeq(chat_ids0["detector"], LAMBDA c : c \notin Revoked)
              /\ PersistedIds = ToSet(chat_ids0["detector"]) \ Revoked
              /\ prune_saves["detector"] = (IF Revoked # {} THEN 1 ELSE 0)

\* recipient 100 was revoked and the probe of 200 timed out: 200 alone is
\* left, after one write of the file
C23_Witness ==
    /\ pc["detector"] = "idle"
    /\ chat_ids0["detector"] = <<100, 200>>
    /\ probes["detector"] = <<[chat |-> 100, outcome |-> "Unauthorized"],
                              [chat |-> 200, outcome |-> "TimedOut"]>>
    /\ chat_ids["detector"] = <<200>>
    /\ PersistedIds = {200}
    /\ prune_saves["detector"] = 1

(***************************************************************************)
(* Shutdown: NotificationService.cleanup                                   *)
(***************************************************************************)
\* a shutdown that does not wait for the workers
ShutdownReadyNoWait == TRUE

\* executor.shutdown(wait=True) returns once every worker thread has ended,
\* and a worker ends only when the queue is empty and its task is over
ShutdownReady == queue = <<>> /\ \A w \in Workers : worker[w].pc = "free"

\* cleanup is entered, from the thread of the detection loop:
\* executor.shutdown marks the executor, which takes no further task
Cleanup ==
    /\ service = "running"
    /\ producer = "idle"
    /\ service' = "closing"
    /\ UNCHANGED <<env, whatsapp_enabled, telegram_bot, producer, queue, worker,
                   loop_running, dispatch>>
    /\ UNCHANGED <<botVars, lockVars, moreVars>>

\* executor.shutdown(wait=True) returns; the loop, which runs nothing any
\* more, is closed and cleanup returns
CleanupReturn ==
    /\ service = "closing"
    /\ ShutdownReady
    /\ service' = "closed"
    /\ UNCHANGED <<env, whatsapp_enabled, telegram_bot, producer, queue, worker,
                   loop_running, dispatch>>
    /\ UNCHANGED <<botVars, lockVars, moreVars>>

NextShutdown ==
    \/ NextFacade
    \/ Cleanup
    \/ CleanupReturn

SpecShutdown == InitFacade /\ [][NextShutdown]_vars

C24_WitnessInFlight ==
    /\ service = "closing"
    /\ queue # <<>>
    /\ \E w \in Workers : worker[w].pc = "deliver"

(***************************************************************************)
(* The registry across a delivery (SpecDeliver)                            *)
(***************************************************************************)
\* C25: a recipient to whom a send succeeded during a call is in the registry
\* after the call, in memory and as persisted, whichever attempt succeeded
\* and whatever its earlier attempts raised; and at no time of the call does
\* the registry, in memory or as persisted, hold a recipient that was not in
\* it when the call started.
C25_ReachedRecipientKept ==
    /\ Returned
           => \A c \in RegistryBefore :
                  Succeeded(c) => (c \in RegistryAfter /\ c \in PersistedIds)
    /\ (pc["detector"] = "sending" \/ Returned)
           => /\ RegistryAfter \subseteq RegistryBefore
              /\ PersistedIds \subseteq RegistryBefore

\* recipient 100 was reached on its third attempt after a timeout and a
\* network error, recipient 200 was refused: 100 alone is kept, and written
C25_Witness ==
    /\ Returned
    /\ chat_ids0["detector"] = <<100, 200>>
    /\ OutcomesTo(100) = <<"TimedOut", "NetworkError", "ok">>
    /\ OutcomesTo(200) = <<"Unauthorized">>
    /\ chat_ids["detector"] = <<100>>
    /\ PersistedIds = {100}
    /\ h_op = "save"

(***************************************************************************)
(* Discovery by a process that may stop, over a store that may refuse      *)
(***************************************************************************)
\* the process stops inside _update_chat_ids: what the instance held in
\* memory is gone, the files stay as they were last written
Crash(p) ==
    /\ pc[p] \in {"poll", "loop"}
    /\ pc' = [pc EXCEPT ![p] = "off"]
    /\ chat_ids' = [chat_ids EXCEPT ![p] = <<>>]
    /\ offset' = [offset EXCEPT ![p] = 0]
    /\ updates' = [updates EXCEPT ![p] = <<>>]
    /\ new_ids' = [new_ids EXCEPT ![p] = <<>>]
    /\ runs' = [runs EXCEPT ![p] = @ + 1]
    /\ UNCHANGED <<fileVars, source, sendVars, chat_ids0, cursor0, polled,
                   after_first, writes, storeHist>>
    /\ UNCHANGED extVars

\* after the loop, with new_ids: _save_chat_ids() fails to write
\* sysdata.bin; its handler logs the exception and the method returns
UpdateEndSaveFails(p) ==
    /\ pc[p] = "loop"
    /\ updates[p] = <<>>
    /\ new_ids[p] # <<>>
    /\ pc' = [pc EXCEPT ![p] = "idle"]
    /\ runs' = [runs EXCEPT ![p] = @ + 1]
    /\ after_first' =
           [after_first EXCEPT ![p] =
               IF runs[p] = 0
               THEN <<[ids |-> chat_ids[p], storage |-> storage_file,
                       cursor |-> update_file]>>
               ELSE @]
    /\ UNCHANGED <<fileVars, source, chat_ids, discVars, sendVars, chat_ids0,
                   cursor0, polled, writes, storeHist>>
    /\ UNCHANGED extVars

\* A first installation: no file yet, a source that holds one batch.
InitCrash ==
    /\ storage_file = AbsentFile
    /\ update_file = AbsentFile
    /\ source \in Batches(MaxBatch)
    /\ pc = [p \in Procs |-> IF p = "detector" THEN "off" ELSE "unused"]
    /\ chat_ids = [p \in Procs |-> <<>>]
    /\ chat_ids0 = [p \in Procs |-> <<>>]
    /\ LocalsInit
    /\ FacadeUnused
    /\ LocksFree
    /\ PruneIdle
    /\ LoopOff

NextCrash ==
    \/ New("detector")
    \/ UpdateBegin("detector")
    \/ \E answer \in {"all", "from_offset", "error"} : Poll("detector", answer)
    \/ ProcessUpdate("detector")
    \/ UpdateEnd("detector")
    \/ UpdateEndSaveFails("detector")
    \/ Crash("detector")

SpecCrash == InitCrash /\ [][NextCrash]_vars

\* no discovery call is under way
Quiescent == pc["detector"] \in {"off", "idle"}

\* the senders of the updates the persisted cursor has passed
PassedSenders ==
    {source[i].chat_id : i \in {j \in 1..Len(source) :
        source[j].chat_id # 0 /\ source[j].update_id <= PersistedCursor}}

\* C26: between discovery calls, whenever the persisted cursor is at least
\* the sequence number of an update that carried sender s, s is in the
\* persisted recipient set (no delivery and no pruning runs here), also when
\* the process stopped between two storage writes of a call and when the
\* write of the recipient file failed while the cursor was written.
C26_CursorImpliesSenderPersisted ==
    Quiescent => PassedSenders \subseteq PersistedIds

(***************************************************************************)
(* The detection loop: main                                                *)
(***************************************************************************)
\* the frames one run of the loop reads
MaxFrames == 4

\* Config.ALERT_COOLDOWN, in seconds
ALERT_COOLDOWN == 45

\* what process_frame reports for a frame that shows something
Detections == {"Fire", "Smoke"}

\* the values time.time() returns; the wall clock may be set back between
\* two frames, so a reading can be lower than an earlier one
ClockReadings == {100, 145, 146, 192}

\* a variant that lets an alert through when exactly the cooldown has passed
CooldownOverAtLeast(current_time, last) == current_time - last >= ALERT_COOLDOWN

\* (current_time - last_alert_time) > alert_cooldown
CooldownOver(current_time, last) == current_time - last > ALERT_COOLDOWN

\* next_detection_to_report == "any" or detection == next_detection_to_report
Reportable(detection, next) == next = "any" \/ detection = next

\* a variant that leaves the choice of the next category open
NextToReportAny(detection) == "any"

\* "Smoke" if detection == "Fire" else "Fire"
NextToReport(detection) == IF detection = "Fire" THEN "Smoke" ELSE "Fire"

\* a pass of the loop over a frame in which nothing is detected: the clock
\* is not read
FrameQuiet ==
    /\ Len(frames) < MaxFrames
    /\ frames' = Append(frames, [detection |-> "None", time |-> clock])
    /\ UNCHANGED <<clock, last_alert_time, next_detection_to_report, alerts>>
    /\ UNCHANGED <<botVars, facadeVars, lockVars, pruneVars>>

\* a pass of the loop over a frame with a detection; alerts is the sequence
\* of the calls notification_service.send_alert(processed_frame, detection)
FrameDetected(detection, current_time) ==
    /\ Len(frames) < MaxFrames
    /\ frames' = Append(frames, [detection |-> detection, time |-> current_time])
    /\ clock' = current_time
    /\ IF /\ Reportable(detection, next_detection_to_report)
          /\ CooldownOver(current_time, last_alert_time)
       THEN /\ alerts' = Append(alerts, [time |-> current_time,
                                         category |-> detection])
            /\ last_alert_time' = current_time
            /\ next_detection_to_report' = NextToReport(detection)
       ELSE UNCHANGED <<alerts, last_alert_time, next_detection_to_report>>
    /\ UNCHANGED <<botVars, facadeVars, lockVars, pruneVars>>

InitLoop ==
    /\ storage_file = AbsentFile
    /\ update_file = AbsentFile
    /\ source = <<>>
    /\ pc = [p \in Procs |-> "unused"]
    /\ chat_ids = [p \in Procs |-> <<>>]
    /\ chat_ids0 = [p \in Procs |-> <<>>]
    /\ LocalsInit
    /\ FacadeUnused
    /\ LocksFree
    /\ PruneIdle
    /\ LoopOff

NextLoop ==
    \/ FrameQuiet
    \/ \E detection \in Detections, current_time \in ClockReadings :
           FrameDetected(detection, current_time)

SpecLoop == InitLoop /\ [][NextLoop]_vars

\* C27: any two consecutive send_alert calls of the detection loop are more
\* than ALERT_COOLDOWN seconds of the loop's clock apart, whatever the
\* frames show.
C27_AlertsCooldownApart ==
    \A i \in 1..Len(alerts) - 1 :
        alerts[i + 1].time - alerts[i].time > ALERT_COOLDOWN

\* after an alert at 100, a detection of the awaited category 45 seconds
\* later raised no alert and the one 46 seconds later did
C27_Witness ==
    /\ frames = <<[detection |-> "Fire", time |-> 100],
                  [detection |-> "Smoke", time |-> 145],
                  [detection |-> "Smoke", time |-> 146]>>
    /\ alerts = <<[time |-> 100, category |-> "Fire"],
                  [time |-> 146, category |-> "Smoke"]>>

\* C28: the categories of the send_alert calls alternate: no alert is
\* followed by an alert of the same category, however long that category
\* keeps being detected and however much time has passed.
C28_CategoriesAlternate ==
    \A i \in 1..Len(alerts) - 1 :
        alerts[i + 1].category # alerts[i].category

\* after a Fire alert at 100, Fire was detected again 46 and 92 seconds
\* later without an alert; the next alert was the Smoke one
C28_Witness ==
    /\ frames = <<[detection |-> "Fire", time |-> 100],
                  [detection |-> "Fire", time |-> 146],
                  [detection |-> "Fire", time |-> 192],
                  [detection |-> "Smoke", time |-> 192]>>
    /\ alerts = <<[time |-> 100, category |-> "Fire"],
                  [time |-> 192, category |-> "Smoke"]>>

=============================================================================
